---- MODULE Spec2Model ----
(***************************************************************************)
(* Generation lifecycle of the test-assistant backend: the create handler  *)
(* (tracker fetch, model call with retries, terminal save), the content    *)
(* editor with its version history, the publish toggle, view / download /  *)
(* delete and the preflight estimate, over the persisted Generation        *)
(* collection.                                                             *)
(*                                                                         *)
(* Strings are modelled as sequences of tokens (a token is a character or  *)
(* a word), so that startsWith / includes / concatenation are computed.    *)
(* Dates are abstracted to the token "date": only their presence is kept.  *)
(***************************************************************************)
EXTENDS Integers, Sequences, FiniteSets, TLC

VARIABLES
    env,            \* process environment: which service credentials are configured
    jiraService,    \* module-level lazily built tracker client
    openAiService,  \* module-level lazily built model client
    db,             \* the Generation collection: id -> stored document
    projects,       \* the Project collection: projectKey -> stored document
    reqs,           \* create requests that persisted a record: id -> handler position
    nextId,         \* next fresh document id
    last,           \* the most recent handler step and the response it sent
    nDiff,          \* per id: successful edits whose content differed from the stored one
    nSame,          \* per id: successful edits whose content equalled the stored one
    replaced,       \* per id: <<version, content>> pairs that were live and got replaced
    edits           \* content requests between their findById and their save, in arrival order

vars == <<env, jiraService, openAiService, db, projects, reqs, nextId, last,
          nDiff, nSame, replaced, edits>>

----------------------------------------------------------------------------
(* Bounds *)

MaxGen == 1
MaxEdits == 3
MaxListed == 3
MaxKeyLen == 3
MaxCreates == 2
MaxConcEdits == 2

Ids == 1..MaxGen

----------------------------------------------------------------------------
(* Values *)

Undefined == "undefined"
Date == "date"

Emails == {"a@x", "b@x"}

\* bearer credentials a request may carry
Tokens ==
    {[kind |-> "missing", email |-> Undefined],
     [kind |-> "invalid", email |-> Undefined]}
    \cup {[kind |-> "access", email |-> e] : e \in Emails}
    \cup {[kind |-> "refresh", email |-> Undefined]}

\* issue keys a client may send: "" and "k-1"
IssueKeys == {<< >>, <<"k", "-", "1">>}

\* error messages of the tracker collaborator (words are tokens)
TrackerErrors ==
    {<<"authentication", "failed">>, <<"access", "forbidden">>,
     <<"issue", "not found">>, <<"timeout">>, << >>}

Summaries == {<< >>, <<"s">>}

\* raw model outputs: with a leading heading marker, without, and empty
ModelOutputs == {<<"#", "t">>, <<"b">>, << >>}

\* content values an editor may submit
EditContents == {<< >>, <<"b">>}

NotAString == <<"<not a string>">>

\* null / undefined where a string is expected
Null == <<"<null>">>

----------------------------------------------------------------------------
(* Persisted Generation document (generationSchema) *)

NoFilename == [issueKey |-> << >>, id |-> 0]

\* `now` is the creation instant: documents are stamped in creation order
NewGeneration(issueKey, email, project, now) ==
    [issueKey |-> issueKey,
     email |-> email,
     project |-> project,
     mode |-> "manual",
     status |-> Undefined,
     createdAt |-> now,
     startedAt |-> Date,
     completedAt |-> Undefined,
     error |-> << >>,
     hasMarkdown |-> FALSE,
     content |-> << >>,
     filename |-> NoFilename,
     tokenUsage |-> Undefined,
     published |-> FALSE,
     publishedAt |-> Undefined,
     publishedBy |-> Undefined,
     version |-> << >>,
     currentVersion |-> 1]

----------------------------------------------------------------------------
(* Responses *)

NoData == [kind |-> "none"]

ErrorResp(status, error) ==
    [status |-> status, success |-> FALSE, error |-> error, data |-> NoData]

OkResp(data) ==
    [status |-> 200, success |-> TRUE, error |-> << >>, data |-> data]

\* next(e): the exception leaves the handler for the framework's error handler
Unhandled == [status |-> 500, success |-> FALSE, error |-> <<"next(e)">>, data |-> NoData]

NoResp == [status |-> 0, success |-> FALSE, error |-> << >>, data |-> NoData]

Obs(op, id, email, content, flag, resp, pre) ==
    [op |-> op, id |-> id, email |-> email, content |-> content, flag |-> flag,
     resp |-> resp, pre |-> pre]

----------------------------------------------------------------------------
(* Pure helpers *)

\* Math.ceil(a / b) on naturals
CeilDiv(a, b) == (a + b - 1) \div b

\* String.prototype.includes at token granularity
Includes(msg, word) == \E i \in 1..Len(msg) : msg[i] = word

StartsWith(s, tok) == Len(s) > 0 /\ s[1] = tok

AlphaNum == {"k", "K", "1"}

\* ToUpper that leaves the case as it is
ToUpper_Identity(c) == c

ToUpper(c) == IF c = "k" THEN "K" ELSE c

RECURSIVE LeadingRun(_)
\* longest leading run of alphanumerics of a token sequence
LeadingRun(s) ==
    IF s = << >> \/ s[1] \notin AlphaNum THEN << >>
    ELSE <<s[1]>> \o LeadingRun(Tail(s))

\* extractProject: null for a falsy or non-string argument, otherwise the
\* group of /^([A-Z0-9]+)-/i upper-cased, or null without a match
extractProject(issueKey) ==
    LET run == LeadingRun(issueKey) IN
    IF issueKey = << >> \/ issueKey = Null \/ issueKey = NotAString THEN Null
    ELSE IF Len(run) >= 1 /\ Len(issueKey) > Len(run) /\ issueKey[Len(run) + 1] = "-"
         THEN [i \in 1..Len(run) |-> ToUpper(run[i])]
         ELSE Null

\* requireAuth: the user a token resolves to, or a rejection
requireAuth(tok) ==
    IF tok.kind = "missing" THEN [ok |-> FALSE, email |-> Undefined, resp |-> ErrorResp(401, <<"Missing token">>)]
    ELSE IF tok.kind = "invalid" THEN [ok |-> FALSE, email |-> Undefined, resp |-> ErrorResp(401, <<"invalid token">>)]
    ELSE [ok |-> TRUE, email |-> tok.email, resp |-> NoResp]

\* the identities authenticated requests run under
Requesters == {requireAuth(tok).email : tok \in {t \in Tokens : requireAuth(t).ok}}

\* requireAuth answers 401 itself and the route handler never runs
Unauthenticated(tok) ==
    /\ ~requireAuth(tok).ok
    /\ last' = Obs("requireAuth", 0, Undefined, << >>, "", requireAuth(tok).resp, << >>)
    /\ UNCHANGED <<edits, env, jiraService, openAiService, db, projects, reqs, nextId,
                   nDiff, nSame, replaced>>

----------------------------------------------------------------------------
(* extractProject on its own: every argument up to MaxKeyLen characters *)

\* characters of an argument: letters of both cases, a digit, the hyphen, another sign
KeyAlphabet == {"k", "K", "1", "-", "_"}

\* arguments: null, a value that is no string, and every string up to MaxKeyLen
ExtractInputs ==
    {Null, NotAString}
    \cup UNION {[1..n -> KeyAlphabet] : n \in 0..MaxKeyLen}

\* the value a function call returned
Returned(value) ==
    [status |-> 0, success |-> TRUE, error |-> << >>,
     data |-> [kind |-> "returned", value |-> value]]

InitExtract ==
    /\ env \in [jira : {TRUE}, openai : {TRUE}]
    /\ jiraService = "null"
    /\ openAiService = "null"
    /\ db = << >>
    /\ projects = << >>
    /\ reqs = << >>
    /\ edits = << >>
    /\ nextId = 1
    /\ \E issueKey \in ExtractInputs :
          last = Obs("call", 0, Undefined, issueKey, "", NoResp, << >>)
    /\ nDiff = [g \in Ids |-> 0]
    /\ nSame = [g \in Ids |-> 0]
    /\ replaced = [g \in Ids |-> {}]

\* the call returns
ExtractProject ==
    /\ last.op = "call"
    /\ last' = Obs("extractProject", 0, Undefined, last.content, "",
                   Returned(extractProject(last.content)), << >>)
    /\ UNCHANGED <<edits, env, jiraService, openAiService, db, projects, reqs, nextId,
                   nDiff, nSame, replaced>>

NextExtract == ExtractProject

SpecExtract == InitExtract /\ [][NextExtract]_vars

----------------------------------------------------------------------------
(* Initial state: a freshly started process with empty collections *)

Init ==
    /\ env \in [jira : BOOLEAN, openai : BOOLEAN]
    /\ jiraService = "null"
    /\ openAiService = "null"
    /\ db = << >>
    /\ projects = << >>
    /\ reqs = << >>
    /\ edits = << >>
    /\ nextId = 1
    /\ last = Obs("start", 0, Undefined, << >>, "", NoResp, << >>)
    /\ nDiff = [g \in Ids |-> 0]
    /\ nSame = [g \in Ids |-> 0]
    /\ replaced = [g \in Ids |-> {}]

\* f with key k bound to v (insert or overwrite)
Put(f, k, v) == [x \in DOMAIN f \cup {k} |-> IF x = k THEN v ELSE f[x]]

\* f without key k
Drop(f, k) == [x \in DOMAIN f \ {k} |-> f[x]]

----------------------------------------------------------------------------
(* POST /generations/testcases *)

maxRetries == 3

\* findOrCreateProject: the collection after the call
findOrCreateProject(projectKey, userEmail) ==
    IF projectKey \in DOMAIN projects
    THEN Put(projects, projectKey, [projects[projectKey] EXCEPT !.lastGeneratedAt = Date])
    ELSE Put(projects, projectKey,
             [createdBy |-> userEmail, firstGeneratedAt |-> Date,
              lastGeneratedAt |-> Date, totalGenerations |-> 0])

\* Generation.countDocuments({ project })
countDocuments(project) == Cardinality({g \in DOMAIN db : db[g].project = project})

\* NewReq of a handler that goes straight to the model
NewReq_SkipsFetch(email, issueKey, project) ==
    [pc |-> "generate", email |-> email, issueKey |-> issueKey, project |-> project,
     retryCount |-> 0, error |-> << >>, summary |-> << >>, markdown |-> << >>,
     pending |-> NoResp, cause |-> "", loadedTotal |-> 0, count |-> 0,
     fetches |-> 0, calls |-> 0, waits |-> << >>]

NewReq(email, issueKey, project) ==
    [pc |-> "saved", email |-> email, issueKey |-> issueKey, project |-> project,
     retryCount |-> 0, error |-> << >>, summary |-> << >>, markdown |-> << >>,
     pending |-> NoResp, cause |-> "",
     loadedTotal |-> 0,  \* updatedProject.totalGenerations as loaded
     count |-> 0,        \* the result of the count query
     fetches |-> 0,      \* history: tracker queries made by this request
     calls |-> 0,        \* history: model calls made by this request
     waits |-> << >>]    \* history: the backoff delays (ms) slept so far

\* the handler has returned: its locals are gone
Finish(r) ==
    [r EXCEPT !.pc = "done", !.retryCount = 0, !.error = << >>, !.summary = << >>,
              !.markdown = << >>, !.pending = NoResp, !.cause = "",
              !.loadedTotal = 0, !.count = 0, !.fetches = 0, !.calls = 0,
              !.waits = << >>]

\* lines 157-185: validation, project association, first save of the in-flight record
CreateBegin(tok, cap) ==
    LET auth == requireAuth(tok)
        g == nextId
    IN
    /\ nextId <= cap
    /\ UNCHANGED <<edits, env, jiraService, openAiService, nDiff, nSame, replaced>>
    /\ auth.ok
    /\ \E issueKey \in IssueKeys :
          IF issueKey = << >> THEN
             /\ last' = Obs("create", 0, auth.email, << >>, "validate",
                            ErrorResp(400, <<"issueKey required">>), << >>)
             /\ UNCHANGED <<db, projects, reqs, nextId>>
          ELSE \E projectOk \in BOOLEAN, saveOk \in BOOLEAN :
             LET projectKey == extractProject(issueKey)
                 linked == projectKey # Null /\ projectOk
                 project == IF linked THEN projectKey ELSE << >>
             IN
             /\ projects' = IF linked THEN findOrCreateProject(projectKey, auth.email)
                            ELSE projects
             /\ IF saveOk THEN
                   /\ db' = Put(db, g, NewGeneration(issueKey, auth.email, project, g))
                   /\ reqs' = Put(reqs, g, NewReq(auth.email, issueKey, project))
                   /\ nextId' = nextId + 1
                   /\ last' = Obs("create", g, auth.email, << >>, "saved", NoResp, << >>)
                ELSE
                   /\ last' = Obs("create", 0, auth.email, << >>, "saved", Unhandled, << >>)
                   /\ UNCHANGED <<db, reqs, nextId>>

\* line 189: load the project again (nothing to do without a project)
CreateProjectLoad(g) ==
    /\ g \in DOMAIN reqs
    /\ reqs[g].pc = "saved"
    /\ UNCHANGED <<edits, env, jiraService, openAiService, db, projects, nextId, nDiff, nSame,
                   replaced>>
    /\ LET r == reqs[g] IN
       IF r.project = << >> THEN
          /\ reqs' = [reqs EXCEPT ![g].pc = "fetch"]
          /\ last' = Obs("create", g, r.email, << >>, "projectLoad", NoResp, << >>)
       ELSE \E dbOk \in BOOLEAN :
          IF ~dbOk THEN
             /\ reqs' = [reqs EXCEPT ![g] = Finish(r)]
             /\ last' = Obs("create", g, r.email, << >>, "projectLoad", Unhandled, << >>)
          ELSE
             /\ reqs' = IF r.project \in DOMAIN projects
                        THEN [reqs EXCEPT ![g].pc = "counting",
                                          ![g].loadedTotal = projects[r.project].totalGenerations]
                        ELSE [reqs EXCEPT ![g].pc = "fetch"]
             /\ last' = Obs("create", g, r.email, << >>, "projectLoad", NoResp, << >>)

\* line 191: count the generations of the project
CreateCount(g) ==
    /\ g \in DOMAIN reqs
    /\ reqs[g].pc = "counting"
    /\ UNCHANGED <<edits, env, jiraService, openAiService, db, projects, nextId, nDiff, nSame,
                   replaced>>
    /\ LET r == reqs[g] IN
       \E dbOk \in BOOLEAN :
          IF ~dbOk THEN
             /\ reqs' = [reqs EXCEPT ![g] = Finish(r)]
             /\ last' = Obs("create", g, r.email, << >>, "count", Unhandled, << >>)
          ELSE
             /\ reqs' = [reqs EXCEPT ![g].pc = "saving",
                                     ![g].count = countDocuments(r.project)]
             /\ last' = Obs("create", g, r.email, << >>, "count", NoResp, << >>)

\* line 192: updatedProject.save() writes totalGenerations when the assignment changed it
ProjectSaved(project, loadedTotal, count) ==
    IF count # loadedTotal
    THEN [projects EXCEPT ![project].totalGenerations = count]
    ELSE projects

\* line 192: store the recounted total
CreateProjectSave(g) ==
    /\ g \in DOMAIN reqs
    /\ reqs[g].pc = "saving"
    /\ UNCHANGED <<edits, env, jiraService, openAiService, db, nextId, nDiff, nSame, replaced>>
    /\ LET r == reqs[g] IN
       \E dbOk \in BOOLEAN :
          IF ~dbOk THEN
             /\ reqs' = [reqs EXCEPT ![g] = Finish(r)]
             /\ last' = Obs("create", g, r.email, << >>, "projectSave", Unhandled, << >>)
             /\ UNCHANGED projects
          ELSE
             /\ projects' = ProjectSaved(r.project, r.loadedTotal, r.count)
             /\ reqs' = [reqs EXCEPT ![g].pc = "fetch", ![g].loadedTotal = 0, ![g].count = 0]
             /\ last' = Obs("create", g, r.email, << >>, "projectSave", NoResp, << >>)

\* outcomes of jira.getIssue
IssueResults ==
    {[success |-> TRUE, summary |-> s, error |-> << >>] : s \in Summaries}
    \cup {[success |-> FALSE, summary |-> << >>, error |-> e] : e \in TrackerErrors}

\* status code of the create route's tracker-failure response (line 208)
CreateFetchStatus(error) == 404

\* TrackerFailureError without the fallback text
TrackerFailureError_NoFallback(error) == error

\* generation.error on a tracker failure (line 205)
TrackerFailureError(error) ==
    IF error # << >> THEN error ELSE <<"Failed to fetch JIRA issue">>

\* generation.error on a model failure (line 248)
ModelFailureError(message) == <<"OpenAI generation failed:">> \o message

\* lines 196-230: tracker fetch, then the first model call is issued
CreateFetch(g) ==
    /\ g \in DOMAIN reqs
    /\ reqs[g].pc = "fetch"
    /\ UNCHANGED <<edits, env, db, projects, nextId, nDiff, nSame, replaced>>
    /\ LET r == reqs[g] IN
       IF jiraService = "null" /\ ~env.jira THEN
          \* getJiraService throws: new JiraService() failed
          /\ reqs' = [reqs EXCEPT ![g] = Finish(r)]
          /\ last' = Obs("create", g, r.email, << >>, "fetch", Unhandled, << >>)
          /\ UNCHANGED <<jiraService, openAiService>>
       ELSE \E issueResult \in IssueResults :
          /\ jiraService' = "ready"
          /\ last' = Obs("create", g, r.email, << >>, "fetch", NoResp, << >>)
          /\ IF ~issueResult.success THEN
                /\ reqs' = [reqs EXCEPT
                      ![g].pc = "saveFailed",
                      ![g].fetches = @ + 1,
                      ![g].cause = "tracker",
                      ![g].error = TrackerFailureError(issueResult.error),
                      ![g].pending = ErrorResp(CreateFetchStatus(issueResult.error),
                                               issueResult.error)]
                /\ UNCHANGED openAiService
             ELSE IF openAiService = "null" /\ ~env.openai THEN
                \* getOpenAIService throws inside the try block
                /\ reqs' = [reqs EXCEPT
                      ![g].pc = "saveFailed",
                      ![g].fetches = @ + 1,
                      ![g].cause = "model",
                      ![g].error = ModelFailureError(<<"email and apiToken are required on environment">>),
                      ![g].pending = ErrorResp(500, <<"email and apiToken are required on environment">>)]
                /\ UNCHANGED openAiService
             ELSE
                /\ openAiService' = "ready"
                /\ reqs' = [reqs EXCEPT ![g].pc = "generate",
                                        ![g].fetches = @ + 1,
                                        ![g].summary = issueResult.summary,
                                        ![g].retryCount = 0]

\* outcomes of one chat-completion call
ModelResults ==
    {[ok |-> TRUE, content |-> c, message |-> << >>] : c \in ModelOutputs}
    \cup {[ok |-> FALSE, content |-> << >>, message |-> <<"rate limited">>]}

\* EnsureTitle that stores the model output as it came
EnsureTitle_Raw(markdownContent, issueKey, summary) == markdownContent

\* lines 241-244: make sure the document starts with a heading
EnsureTitle(markdownContent, issueKey, summary) ==
    IF StartsWith(markdownContent, "#") THEN markdownContent
    ELSE <<"#", "Test Cases for">> \o issueKey \o <<":">>
         \o (IF summary # << >> THEN summary ELSE <<"Untitled">>)
         \o <<"\n\n">> \o markdownContent

RECURSIVE Pow(_, _)
\* Math.pow on naturals
Pow(b, n) == IF n = 0 THEN 1 ELSE b * Pow(b, n - 1)

\* waitTime without the exponent: a constant delay
waitTime_Constant(retryCount) == 2 * 1000

\* line 142: the backoff delay in ms after `retryCount` failed attempts
waitTime(retryCount) == Pow(2, retryCount) * 1000

\* one pass of the retry loop of generateTestCase, and lines 232-252 on its result
CreateModelAttempt(g) ==
    /\ g \in DOMAIN reqs
    /\ reqs[g].pc = "generate"
    /\ UNCHANGED <<edits, env, jiraService, openAiService, db, projects, nextId, nDiff, nSame, replaced>>
    /\ \E result \in ModelResults :
       LET r == reqs[g]
           failed == ~result.ok \/ result.content = << >>
           message == IF result.ok THEN <<"Empty response from OpenAI">> ELSE result.message
       IN
       /\ last' = Obs("create", g, r.email, IF failed THEN message ELSE result.content,
                      "generate", NoResp, << >>)
       /\ IF ~failed THEN
             reqs' = [reqs EXCEPT ![g].pc = "saveCompleted",
                                  ![g].retryCount = 0,
                                  ![g].calls = @ + 1,
                                  ![g].markdown = EnsureTitle(result.content, r.issueKey, r.summary)]
          ELSE IF r.retryCount + 1 <= maxRetries THEN
             \* retryCount++, then sleep waitTime before the next pass
             reqs' = [reqs EXCEPT ![g].retryCount = r.retryCount + 1,
                                  ![g].calls = @ + 1,
                                  ![g].waits = Append(@, waitTime(r.retryCount + 1))]
          ELSE
             reqs' = [reqs EXCEPT ![g].pc = "saveFailed",
                                  ![g].cause = "model",
                                  ![g].retryCount = 0,
                                  ![g].calls = @ + 1,
                                  ![g].error = ModelFailureError(message),
                                  ![g].pending = ErrorResp(500, message)]

\* lines 204-206 and 247-249: the document of a failed generation
FailedGen(gen, error) ==
    [gen EXCEPT !.status = "failed", !.error = error, !.completedAt = Date]

\* lines 258-270: the document of a completed generation
CompletedGen(gen, id, markdownContent) ==
    [gen EXCEPT !.status = "completed",
                !.completedAt = Date,
                !.tokenUsage = "usage",
                !.hasMarkdown = TRUE,
                !.content = markdownContent,
                !.filename = [issueKey |-> gen.issueKey, id |-> id],
                !.currentVersion = 1,
                !.version = << >>]

\* lines 204-208 and 247-251: persist the failure, then answer
CreateSaveFailed(g) ==
    /\ g \in DOMAIN reqs
    /\ reqs[g].pc = "saveFailed"
    /\ UNCHANGED <<edits, env, jiraService, openAiService, projects, nextId, nDiff, nSame, replaced>>
    /\ \E saveOk \in BOOLEAN :
       LET r == reqs[g] IN
       IF saveOk /\ g \in DOMAIN db THEN
          /\ db' = [db EXCEPT ![g] = FailedGen(@, r.error)]
          /\ reqs' = [reqs EXCEPT ![g] = Finish(r)]
          /\ last' = Obs("create", g, r.email, << >>, r.cause, r.pending, << >>)
       ELSE
          /\ reqs' = [reqs EXCEPT ![g] = Finish(r)]
          /\ last' = Obs("create", g, r.email, << >>, "saveFailed", Unhandled, << >>)
          /\ UNCHANGED db

\* lines 254-294: persist the completed generation, then answer
CreateSaveCompleted(g) ==
    /\ g \in DOMAIN reqs
    /\ reqs[g].pc = "saveCompleted"
    /\ UNCHANGED <<edits, env, jiraService, openAiService, projects, nextId, nDiff, nSame, replaced>>
    /\ \E saveOk \in BOOLEAN :
       LET r == reqs[g]
           filename == [issueKey |-> r.issueKey, id |-> g]
           resp == OkResp([kind |-> "created", generationId |-> g, issueKey |-> r.issueKey,
                           markdown |-> [filename |-> filename, content |-> r.markdown]])
       IN
       IF saveOk /\ g \in DOMAIN db THEN
          /\ db' = [db EXCEPT ![g] = CompletedGen(@, g, r.markdown)]
          /\ reqs' = [reqs EXCEPT ![g] = Finish(r)]
          /\ last' = Obs("create", g, r.email, << >>, "saveCompleted", resp, << >>)
       ELSE
          /\ reqs' = [reqs EXCEPT ![g] = Finish(r)]
          /\ last' = Obs("create", g, r.email, << >>, "saveCompleted", Unhandled, << >>)
          /\ UNCHANGED db

----------------------------------------------------------------------------
(* Document routes: PUT /:id/content, PUT /:id/publish, GET /:id/view,     *)
(* GET /:id/download, DELETE /:id                                          *)

NotFound == ErrorResp(404, <<"Not found">>)

\* gen.result?.markdown?.content || ''
StoredContent(gen) == IF gen.hasMarkdown THEN gen.content ELSE << >>

\* gen.version.some(v => v.version === n)
versionExists(gen, n) == \E i \in 1..Len(gen.version) : gen.version[i].version = n

\* EditedGen without the comparison against the submitted content
EditedGen_AlwaysTracks(gen, content, email) ==
    LET currentContent == StoredContent(gen)
        currentVersionNum == gen.currentVersion
        snapshot == [version |-> currentVersionNum, content |-> currentContent,
                     updatedAt |-> Date, updatedBy |-> email]
        tracked ==
            IF currentContent # << >>
            THEN [gen EXCEPT
                    !.version = IF versionExists(gen, currentVersionNum) THEN @
                                ELSE Append(@, snapshot),
                    !.currentVersion = currentVersionNum + 1]
            ELSE gen
    IN [tracked EXCEPT !.hasMarkdown = TRUE, !.content = content]

\* EditedGen that records the snapshot and keeps the version number
EditedGen_NoIncrement(gen, content, email) ==
    LET currentContent == StoredContent(gen)
        currentVersionNum == gen.currentVersion
        snapshot == [version |-> currentVersionNum, content |-> currentContent,
                     updatedAt |-> Date, updatedBy |-> email]
        tracked ==
            IF currentContent # << >> /\ currentContent # content
            THEN [gen EXCEPT
                    !.version = IF versionExists(gen, currentVersionNum) THEN @
                                ELSE Append(@, snapshot)]
            ELSE gen
    IN [tracked EXCEPT !.hasMarkdown = TRUE, !.content = content]

\* lines 365-395: the document after an edit by `email` submitting `content`
EditedGen(gen, content, email) ==
    LET currentContent == StoredContent(gen)
        currentVersionNum == gen.currentVersion
        snapshot == [version |-> currentVersionNum, content |-> currentContent,
                     updatedAt |-> Date, updatedBy |-> email]
        tracked ==
            IF currentContent # << >> /\ currentContent # content
            THEN [gen EXCEPT
                    !.version = IF versionExists(gen, currentVersionNum) THEN @
                                ELSE Append(@, snapshot),
                    !.currentVersion = currentVersionNum + 1]
            ELSE gen
    IN [tracked EXCEPT !.hasMarkdown = TRUE, !.content = content]

\* EditGuard that only turns away generations still in flight
EditGuard_AllowsFailed(id, email, content) ==
    IF content = NotAString THEN ErrorResp(400, <<"content must be a string">>)
    ELSE IF id \notin DOMAIN db \/ db[id].email # email THEN NotFound
    ELSE IF db[id].status = Undefined
         THEN ErrorResp(400, <<"Can only update completed generations">>)
    ELSE NoResp

\* EditGuard without the completed-only check
EditGuard_NoStatusCheck(id, email, content) ==
    IF content = NotAString THEN ErrorResp(400, <<"content must be a string">>)
    ELSE IF id \notin DOMAIN db \/ db[id].email # email THEN NotFound
    ELSE NoResp

\* lines 350-363: the early return of the content route, NoResp when it goes on
EditGuard(id, email, content) ==
    IF content = NotAString THEN ErrorResp(400, <<"content must be a string">>)
    ELSE IF id \notin DOMAIN db \/ db[id].email # email THEN NotFound
    ELSE IF db[id].status # "completed"
         THEN ErrorResp(400, <<"Can only update completed generations">>)
    ELSE NoResp

\* PUT /:id/content
UpdateContent(tok, id) ==
    LET auth == requireAuth(tok)
        pre == db
    IN
    /\ UNCHANGED <<edits, env, jiraService, openAiService, projects, reqs, nextId>>
    /\ auth.ok
    /\ \E content \in EditContents \cup {NotAString} :
          LET guard == EditGuard(id, auth.email, content) IN
          IF guard # NoResp THEN
             /\ last' = Obs("edit", id, auth.email, << >>, "guard", guard, pre)
             /\ UNCHANGED <<db, nDiff, nSame, replaced>>
          ELSE \E saveOk \in BOOLEAN :
             IF ~saveOk THEN
                /\ last' = Obs("edit", id, auth.email, << >>, "save", Unhandled, pre)
                /\ UNCHANGED <<db, nDiff, nSame, replaced>>
             ELSE
                /\ nDiff[id] + nSame[id] < MaxEdits
                /\ db' = [db EXCEPT ![id] = EditedGen(db[id], content, auth.email)]
                /\ last' = Obs("edit", id, auth.email, content, "ok",
                               OkResp([kind |-> "content", content |-> db'[id].content,
                                       currentVersion |-> db'[id].currentVersion]), pre)
                /\ IF content # StoredContent(db[id]) THEN
                      /\ nDiff' = [nDiff EXCEPT ![id] = @ + 1]
                      /\ replaced' = [replaced EXCEPT
                            ![id] = @ \cup {<<db[id].currentVersion, StoredContent(db[id])>>}]
                      /\ UNCHANGED nSame
                   ELSE
                      /\ nSame' = [nSame EXCEPT ![id] = @ + 1]
                      /\ UNCHANGED <<nDiff, replaced>>

\* line 397: gen.save() of an edited document.  save() sends the paths the
\* handler modified on its own copy: a $set of the content and of
\* currentVersion where they differ from what was loaded, and a $push of the
\* snapshots it appended; the stored document keeps everything else.
SavedEdit(stored, loaded, edited) ==
    [stored EXCEPT
        !.version = @ \o SubSeq(edited.version, Len(loaded.version) + 1, Len(edited.version)),
        !.currentVersion = IF edited.currentVersion # loaded.currentVersion
                           THEN edited.currentVersion ELSE @,
        !.hasMarkdown = IF edited.hasMarkdown # loaded.hasMarkdown THEN TRUE ELSE @,
        !.content = IF edited.content # loaded.content THEN edited.content ELSE @]

\* lines 350-363: a content request up to its findById and early returns
EditLoad(tok, id) ==
    LET auth == requireAuth(tok)
        pre == db
    IN
    /\ UNCHANGED <<env, jiraService, openAiService, db, projects, reqs, nextId,
                   nDiff, nSame, replaced>>
    /\ auth.ok
    /\ Len(edits) < MaxConcEdits
    /\ \E content \in EditContents \cup {NotAString} :
          LET guard == EditGuard(id, auth.email, content) IN
          IF guard # NoResp THEN
             /\ last' = Obs("edit", id, auth.email, << >>, "guard", guard, pre)
             /\ UNCHANGED edits
          ELSE
             /\ last' = Obs("edit", id, auth.email, content, "load", NoResp, pre)
             /\ edits' = Append(edits,
                    [pc |-> "loaded", id |-> id, email |-> auth.email, content |-> content,
                     gen |-> db[id],
                     \* history: how many requests had saved when this one loaded
                     seen |-> Cardinality({k \in 1..Len(edits) : edits[k].pc = "saved"})])

\* lines 365-405: the request works on the copy it loaded, saves and answers
EditSave(k) ==
    /\ k \in 1..Len(edits)
    /\ edits[k].pc = "loaded"
    /\ UNCHANGED <<env, jiraService, openAiService, projects, reqs, nextId,
                   nDiff, nSame, replaced>>
    /\ \E saveOk \in BOOLEAN :
       LET r == edits[k]
           gen == EditedGen(r.gen, r.content, r.email)
       IN
       IF saveOk /\ r.id \in DOMAIN db THEN
          /\ db' = [db EXCEPT ![r.id] = SavedEdit(@, r.gen, gen)]
          /\ edits' = [edits EXCEPT ![k].pc = "saved"]
          /\ last' = Obs("edit", r.id, r.email, r.content, "ok",
                         OkResp([kind |-> "content", content |-> gen.content,
                                 currentVersion |-> gen.currentVersion]), db)
       ELSE
          /\ edits' = [edits EXCEPT ![k].pc = "failed"]
          /\ last' = Obs("edit", r.id, r.email, r.content, "save", Unhandled, db)
          /\ UNCHANGED db

\* values the client may send as `published`
PublishInputs == {"true", "false", "not a boolean"}

\* PublishedGen that starts the version history afresh
PublishedGen_ClearsHistory(gen, published, email) ==
    IF published
    THEN [gen EXCEPT !.published = TRUE, !.publishedAt = Date, !.publishedBy = email,
                     !.version = << >>, !.currentVersion = 1]
    ELSE [gen EXCEPT !.published = FALSE, !.publishedAt = Undefined,
                     !.publishedBy = Undefined]

\* lines 429-438: the document after the publish toggle
PublishedGen(gen, published, email) ==
    IF published
    THEN [gen EXCEPT !.published = TRUE, !.publishedAt = Date, !.publishedBy = email]
    ELSE [gen EXCEPT !.published = FALSE, !.publishedAt = Undefined,
                     !.publishedBy = Undefined]

\* PublishGuard that refuses a request for the state the generation is already in
PublishGuard_RejectsRepeat(id, email, published) ==
    IF published \notin {"true", "false"} THEN ErrorResp(400, <<"Published must be a boolean">>)
    ELSE IF id \notin DOMAIN db \/ db[id].email # email THEN NotFound
    ELSE IF db[id].status # "completed"
         THEN ErrorResp(400, <<"Can only publish completed generations">>)
    ELSE IF db[id].published = (published = "true")
         THEN ErrorResp(400, <<"Nothing to change">>)
    ELSE NoResp

\* PublishGuard without the ownership check
PublishGuard_NoOwnerCheck(id, email, published) ==
    IF published \notin {"true", "false"} THEN ErrorResp(400, <<"Published must be a boolean">>)
    ELSE IF id \notin DOMAIN db THEN NotFound
    ELSE IF db[id].status # "completed"
         THEN ErrorResp(400, <<"Can only publish completed generations">>)
    ELSE NoResp

\* lines 415-427: the early return of the publish route, NoResp when it goes on
PublishGuard(id, email, published) ==
    IF published \notin {"true", "false"} THEN ErrorResp(400, <<"Published must be a boolean">>)
    ELSE IF id \notin DOMAIN db \/ db[id].email # email THEN NotFound
    ELSE IF db[id].status # "completed"
         THEN ErrorResp(400, <<"Can only publish completed generations">>)
    ELSE NoResp

\* PUT /:id/publish
SetPublished(tok, id) ==
    LET auth == requireAuth(tok)
        pre == db
    IN
    /\ UNCHANGED <<edits, env, jiraService, openAiService, projects, reqs, nextId,
                   nDiff, nSame, replaced>>
    /\ auth.ok
    /\ \E published \in PublishInputs :
          LET guard == PublishGuard(id, auth.email, published) IN
          IF guard # NoResp THEN
             /\ last' = Obs("publish", id, auth.email, << >>, "guard", guard, pre)
             /\ UNCHANGED db
          ELSE \E saveOk \in BOOLEAN :
             IF ~saveOk THEN
                /\ last' = Obs("publish", id, auth.email, << >>, "save", Unhandled, pre)
                /\ UNCHANGED db
             ELSE
                /\ db' = [db EXCEPT ![id] = PublishedGen(db[id], published = "true", auth.email)]
                /\ last' = Obs("publish", id, auth.email, << >>, published,
                               OkResp([kind |-> "publish", published |-> db'[id].published,
                                       publishedAt |-> db'[id].publishedAt,
                                       publishedBy |-> db'[id].publishedBy]), pre)

\* lines 310-315: the view route's test: owner, or published and completed
canView(gen, email) ==
    gen.email = email \/ (gen.published /\ gen.status = "completed")

\* ViewResponse answering a refused requester the way the delete route does
ViewResponse_Forbidden(id, email) ==
    IF id \notin DOMAIN db THEN NotFound
    ELSE IF ~canView(db[id], email) THEN ErrorResp(403, <<"Not found">>)
    ELSE OkResp([kind |-> "view", email |-> db[id].email,
                 content |-> StoredContent(db[id]),
                 published |-> db[id].published,
                 currentVersion |-> db[id].currentVersion,
                 version |-> db[id].version])

\* lines 303-344: the response of the view route
ViewResponse(id, email) ==
    IF id \notin DOMAIN db THEN NotFound
    ELSE IF ~canView(db[id], email) THEN NotFound
    ELSE OkResp([kind |-> "view", email |-> db[id].email,
                 content |-> StoredContent(db[id]),
                 published |-> db[id].published,
                 currentVersion |-> db[id].currentVersion,
                 version |-> db[id].version])

\* DownloadResponse that serves the owner only
DownloadResponse_OwnerOnly(id, email) ==
    IF id \notin DOMAIN db THEN NotFound
    ELSE IF db[id].email # email THEN NotFound
    ELSE IF db[id].status # "completed" THEN ErrorResp(400, <<"Not completed">>)
    ELSE OkResp([kind |-> "download", filename |-> db[id].filename,
                 body |-> StoredContent(db[id])])

\* lines 458-479: the response of the download route
DownloadResponse(id, email) ==
    IF id \notin DOMAIN db THEN NotFound
    ELSE LET gen == db[id]
             isOwner == gen.email = email
             isPublishedAndCompleted == gen.published /\ gen.status = "completed"
         IN
         IF ~isOwner /\ ~isPublishedAndCompleted THEN NotFound
         ELSE IF gen.status # "completed" THEN ErrorResp(400, <<"Not completed">>)
         ELSE OkResp([kind |-> "download", filename |-> gen.filename,
                      body |-> StoredContent(gen)])

\* GET /:id/view
View(tok, id) ==
    LET auth == requireAuth(tok) IN
    /\ UNCHANGED <<edits, env, jiraService, openAiService, db, projects, reqs, nextId,
                   nDiff, nSame, replaced>>
    /\ auth.ok
    /\ last' = Obs("view", id, auth.email, << >>, "", ViewResponse(id, auth.email), << >>)

\* GET /:id/download
Download(tok, id) ==
    LET auth == requireAuth(tok) IN
    /\ UNCHANGED <<edits, env, jiraService, openAiService, db, projects, reqs, nextId,
                   nDiff, nSame, replaced>>
    /\ auth.ok
    /\ last' = Obs("download", id, auth.email, << >>, "", DownloadResponse(id, auth.email),
                   << >>)

\* DeleteResponse without the ownership check
DeleteResponse_NoOwnerCheck(id, email) ==
    IF id \notin DOMAIN db THEN ErrorResp(404, <<"Generation not found">>)
    ELSE OkResp([kind |-> "deleted"])

\* lines 488-507: the response of the delete route
DeleteResponse(id, email) ==
    IF id \notin DOMAIN db THEN ErrorResp(404, <<"Generation not found">>)
    ELSE IF db[id].email # email
         THEN ErrorResp(403, <<"You can only delete your own generations">>)
    ELSE OkResp([kind |-> "deleted"])

\* DELETE /:id
Delete(tok, id) ==
    LET auth == requireAuth(tok)
        resp == DeleteResponse(id, auth.email)
    IN
    /\ auth.ok
    /\ UNCHANGED <<edits, env, jiraService, openAiService, projects, reqs, nextId,
                   nDiff, nSame, replaced>>
    /\ last' = Obs("delete", id, auth.email, << >>, "", resp, db)
    /\ db' = IF resp.status = 200 THEN Drop(db, id) ELSE db

----------------------------------------------------------------------------
(* GET /generations: the paginated list *)

DefaultLimit == 10
MaxLimit == 50

\* largest number a query string of the model spells
MaxQueryInt == 60

Max(a, b) == IF a >= b THEN a ELSE b
Min(a, b) == IF a <= b THEN a ELSE b

\* the value NaN of a JavaScript number: no integer a query string spells
NaN == MaxQueryInt + 1

\* Math.max and Math.min: NaN as soon as one argument is NaN
MathMax(a, b) == IF a = NaN \/ b = NaN THEN NaN ELSE Max(a, b)
MathMin(a, b) == IF a = NaN \/ b = NaN THEN NaN ELSE Min(a, b)

\* values of req.query.page and req.query.limit: absent, a decimal string
\* (zero, positive, negative, above the cap) or text that is no number
PageInputs == {Undefined, "0", "1", "2", "3", "-3", "abc"}
LimitInputs == {Undefined, "0", "1", "2", "51", "-3", "abc"}

\* values of req.query.filter: absent, the three the route names, any other
FilterInputs == {Undefined, "mine", "published", "all", "bogus"}

\* the strings parseInt is applied to: the query values and the two defaults
QueryStrings == ((PageInputs \cup LimitInputs) \ {Undefined}) \cup {"1", ToString(DefaultLimit)}

\* the integer each of them spells in decimal, NaN for text that is no number
Parsed ==
    [s \in QueryStrings |->
        IF \E n \in (0 - MaxQueryInt)..MaxQueryInt : ToString(n) = s
        THEN CHOOSE n \in (0 - MaxQueryInt)..MaxQueryInt : ToString(n) = s
        ELSE NaN]

\* parseInt(s, 10)
parseInt(s) == Parsed[s]

\* line 103: page
ListPage(page) == MathMax(1, parseInt(IF page = Undefined THEN "1" ELSE page))

\* line 104: limit
ListLimit(limit) ==
    MathMin(MaxLimit,
            MathMax(1, parseInt(IF limit = Undefined THEN ToString(DefaultLimit) ELSE limit)))

\* ListSkip counting pages from zero
ListSkip_FromZero(page, limit) == page * limit

\* line 105: skip
ListSkip(page, limit) == IF page = NaN \/ limit = NaN THEN NaN ELSE (page - 1) * limit

\* line 138: pages
ListPages(total, limit) == IF limit = NaN THEN NaN ELSE CeilDiv(total, limit)

\* lines 130-133: .skip(skip).limit(limit) of the sorted matches; a query
\* that is served with a skip or limit of NaN applies neither
ListSlice(sorted, skip, limit) ==
    IF skip = NaN \/ limit = NaN THEN sorted
    ELSE IF skip >= Len(sorted) THEN << >>
    ELSE SubSeq(sorted, skip + 1, Min(skip + limit, Len(sorted)))

\* ListFilter with the empty filter for a value that is neither 'mine' nor
\* 'published'
ListFilter_Everything(gen, filterType, email) ==
    IF filterType = "mine" THEN gen.email = email
    ELSE IF filterType = "published" THEN gen.published /\ gen.status = "completed"
    ELSE TRUE

\* lines 108-127: does the document match the filter built for the request
ListFilter(gen, filterType, email) ==
    IF filterType = "mine" THEN gen.email = email
    ELSE IF filterType = "published" THEN gen.published /\ gen.status = "completed"
    ELSE gen.email = email \/ (gen.published /\ gen.status = "completed")

RECURSIVE SortDesc(_)
\* .sort({ createdAt: -1 }) of a set of ids: newest first
SortDesc(S) ==
    IF S = {} THEN << >>
    ELSE LET newest == CHOOSE g \in S : \A h \in S : db[h].createdAt <= db[g].createdAt
         IN <<newest>> \o SortDesc(S \ {newest})

\* lines 102-150: the response of the list route
ListResponse(email, filterQuery, pageQuery, limitQuery) ==
    LET page == ListPage(pageQuery)
        limit == ListLimit(limitQuery)
        skip == ListSkip(page, limit)
        filterType == IF filterQuery = Undefined THEN "all" ELSE filterQuery
        matching == {g \in DOMAIN db : ListFilter(db[g], filterType, email)}
        sorted == SortDesc(matching)
        generations == ListSlice(sorted, skip, limit)
        total == Cardinality(matching)
    IN OkResp([kind |-> "list", generations |-> generations,
               pagination |-> [page |-> page, limit |-> limit, total |-> total,
                               pages |-> ListPages(total, limit)]])

\* lines 129-135, 152-153: what the request ends with.  The driver and the
\* server decide what becomes of a skip or limit of NaN: the query is
\* rejected and the error handed to next(e), or it is served.
ListOutcomes(email, filterQuery, pageQuery, limitQuery) ==
    {ListResponse(email, filterQuery, pageQuery, limitQuery)}
        \cup (IF ListPage(pageQuery) = NaN \/ ListLimit(limitQuery) = NaN
              THEN {Unhandled} ELSE {})

\* lines 103-105: the numbers the query is run with
ListWindow(pageQuery, limitQuery) ==
    [page |-> ListPage(pageQuery), limit |-> ListLimit(limitQuery),
     skip |-> ListSkip(ListPage(pageQuery), ListLimit(limitQuery))]

\* GET /generations.  The route changes nothing a later request reads, so a
\* second list request reaches no state the first cannot: one per behaviour.
ListWith(tok, filters, pages, limits) ==
    LET auth == requireAuth(tok) IN
    /\ last.op # "list"
    /\ UNCHANGED <<edits, env, jiraService, openAiService, db, projects, reqs, nextId,
                   nDiff, nSame, replaced>>
    /\ auth.ok
    /\ \E filterQuery \in filters, pageQuery \in pages, limitQuery \in limits :
          \E resp \in ListOutcomes(auth.email, filterQuery, pageQuery, limitQuery) :
             last' = Obs("list", 0, auth.email, <<pageQuery, limitQuery>>,
                         IF filterQuery = Undefined THEN "all" ELSE filterQuery,
                         resp, ListWindow(pageQuery, limitQuery))

\* GET /generations with any query
List(tok) == ListWith(tok, FilterInputs, PageInputs, LimitInputs)

\* stored documents of every kind the create, edit and publish routes leave behind
ListedKinds == {"in flight", "failed", "completed", "published"}

\* the document with id `id` of owner `email` in the state `kind`
ListedGen(id, email, kind) ==
    LET new == NewGeneration(<<"k", "-", "1">>, email, << >>, id)
        completed == CompletedGen(new, id, <<"#", "t">>)
    IN IF kind = "in flight" THEN new
       ELSE IF kind = "failed" THEN FailedGen(new, TrackerFailureError(<<"timeout">>))
       ELSE IF kind = "completed" THEN completed
       ELSE PublishedGen(completed, TRUE, email)

\* a process serving list requests over a collection built by earlier requests
InitList ==
    /\ env \in [jira : {TRUE}, openai : {TRUE}]
    /\ jiraService = "ready"
    /\ openAiService = "ready"
    /\ \E n \in 0..MaxListed :
          \E f \in [1..n -> Emails \X ListedKinds] :
             /\ db = [i \in 1..n |-> ListedGen(i, f[i][1], f[i][2])]
             /\ nextId = n + 1
    /\ projects = << >>
    /\ reqs = << >>
    /\ edits = << >>
    /\ last = Obs("start", 0, Undefined, << >>, "", NoResp, << >>)
    /\ nDiff = [g \in Ids |-> 0]
    /\ nSame = [g \in Ids |-> 0]
    /\ replaced = [g \in Ids |-> {}]

NextList == \E tok \in Tokens : List(tok)

SpecList == InitList /\ [][NextList]_vars

\* a process serving the routes that work on a stored generation
InitFrame ==
    /\ env \in [jira : {TRUE}, openai : {TRUE}]
    /\ jiraService = "ready"
    /\ openAiService = "ready"
    /\ \E email \in Emails, kind \in ListedKinds :
          db = [i \in 1..1 |-> ListedGen(i, email, kind)]
    /\ nextId = 2
    /\ projects = << >>
    /\ reqs = << >>
    /\ edits = << >>
    /\ last = Obs("start", 0, Undefined, << >>, "", NoResp, << >>)
    /\ nDiff = [g \in Ids |-> 0]
    /\ nSame = [g \in Ids |-> 0]
    /\ replaced = [g \in Ids |-> {}]

\* edit, publish, unpublish, view, download and list requests in any order
NextFrame ==
    \/ \E tok \in Tokens, id \in Ids : UpdateContent(tok, id)
    \/ \E tok \in Tokens, id \in Ids : SetPublished(tok, id)
    \/ \E tok \in Tokens, id \in Ids : View(tok, id)
    \/ \E tok \in Tokens, id \in Ids : Download(tok, id)
    \/ \E tok \in Tokens : ListWith(tok, FilterInputs, {Undefined}, {Undefined})

SpecFrame == InitFrame /\ [][NextFrame]_vars

\* a process serving content requests for one completed generation
InitEdits ==
    /\ env \in [jira : {TRUE}, openai : {TRUE}]
    /\ jiraService = "ready"
    /\ openAiService = "ready"
    /\ \E email \in Emails, kind \in {"completed", "published"} :
          db = [i \in 1..1 |-> ListedGen(i, email, kind)]
    /\ nextId = 2
    /\ projects = << >>
    /\ reqs = << >>
    /\ edits = << >>
    /\ last = Obs("start", 0, Undefined, << >>, "", NoResp, << >>)
    /\ nDiff = [g \in Ids |-> 0]
    /\ nSame = [g \in Ids |-> 0]
    /\ replaced = [g \in Ids |-> {}]

NextEdits ==
    \/ \E tok \in Tokens, id \in Ids : EditLoad(tok, id)
    \/ \E k \in 1..MaxConcEdits : EditSave(k)

SpecEdits == InitEdits /\ [][NextEdits]_vars

----------------------------------------------------------------------------
(* POST /generations/preflight *)

\* lines 53-57: status code of a tracker failure
PreflightStatus(error) ==
    IF Includes(error, "authentication") \/ Includes(error, "forbidden") THEN 401
    ELSE IF Includes(error, "not found") THEN 404
    ELSE 500

\* the handler has no try block: an exception leaves it without a response
Escaped == [status |-> 0, success |-> FALSE, error |-> <<"unhandled rejection">>, data |-> NoData]

\* attachment lists of an issue: each entry is its mimeType, or Undefined
AttachmentLists == {<< >>, <<Undefined>>, <<"image/png">>}

\* more attachment lists: other types, several entries
MoreAttachmentLists ==
    AttachmentLists
    \cup {<<"text/plain">>, <<"image/png", "text/plain">>, <<"image/png", "image/png">>,
          <<Undefined, Undefined>>}

\* texts extractTextFromADF(fields.description) yields (characters are tokens)
Descriptions == {<< >>, <<"d">>, <<"d", "e", "s">>}

\* res.json(body) of lines 88-96: the body is sent as it is, without the
\* { success, ... } envelope of the other routes
PreflightBody(data) == [status |-> 200, data |-> data]

\* lines 60-96: the estimate for a fetched issue
PreflightEstimate(summary, description, attachment) ==
    IF \E i \in 1..Len(attachment) : attachment[i] # Undefined
    THEN Escaped   \* att.mimeType?.startWiths is not a function
    ELSE LET imageAttachments == << >>   \* no entry has a mimeType: the filter keeps none
             contextCharacter == Len(summary) + 1 + Len(description)
         IN PreflightBody([kind |-> "preflight", attachments |-> Len(attachment),
                           estimatedTokens |-> CeilDiv(contextCharacter, 4)
                                               + Len(imageAttachments) * 200])

\* lines 43-96: the response to an authenticated request, the tracker client
\* after it, and the issue fields when the tracker returned them
PreflightResult(issueKey, issueResult, description, attachment) ==
    IF issueKey = << >>
    THEN [resp |-> ErrorResp(400, <<"issueKey required">>), jira |-> jiraService,
          issue |-> << >>]
    ELSE IF jiraService = "null" /\ ~env.jira
    THEN [resp |-> Escaped, jira |-> jiraService, issue |-> << >>]   \* getJiraService throws
    ELSE IF ~issueResult.success
    THEN [resp |-> ErrorResp(PreflightStatus(issueResult.error),
                             IF issueResult.error # << >> THEN issueResult.error
                             ELSE <<"Issue not found in JIRA">>),
          jira |-> "ready", issue |-> << >>]
    ELSE [resp |-> PreflightEstimate(issueResult.summary, description, attachment),
          jira |-> "ready",
          issue |-> <<issueResult.summary, description, attachment>>]

\* POST /generations/preflight, for issues with the given descriptions and attachment lists
Preflight(tok, descriptions, attachments) ==
    LET auth == requireAuth(tok) IN
    /\ UNCHANGED <<edits, env, openAiService, db, projects, reqs, nextId, nDiff, nSame, replaced>>
    /\ auth.ok
    /\ \E out \in {PreflightResult(k, ir, d, a) :
                          k \in IssueKeys, ir \in IssueResults,
                          d \in descriptions, a \in attachments} :
          /\ last' = Obs("preflight", 0, Undefined, out.issue,
                         IF out.issue # << >> THEN "fetched" ELSE "", out.resp, << >>)
          /\ jiraService' = out.jira

\* preflight requests alone, over richer issues
NextPreflight ==
    \/ \E tok \in Tokens : Unauthenticated(tok)
    \/ \E tok \in Tokens : Preflight(tok, Descriptions, MoreAttachmentLists)

----------------------------------------------------------------------------
(* Properties *)

\* an id no document ever has
MissingId == MaxGen + 1

Terminal == {"completed", "failed"}

\* C1: every create request that persisted a Generation record and has
\* finished left that record with status 'completed' or 'failed'; no path
\* ends with the record still in flight (status unset).
C1_CreateResolvesStatus ==
    \A g \in DOMAIN reqs :
        (reqs[g].pc = "done" /\ g \in DOMAIN db) => db[g].status \in Terminal

\* the version numbers recorded in version[], in order
VersionNumbers(gen) == [i \in 1..Len(gen.version) |-> gen.version[i].version]

\* C2: after N successful edits of a completed generation, each submitting a
\* string different from the content stored at that time, currentVersion is
\* 1 + N and version[] holds exactly the snapshots numbered 1..N, in order.
C2_VersionCount ==
    \A g \in DOMAIN db :
        (db[g].status = "completed" /\ nSame[g] = 0) =>
            /\ db[g].currentVersion = 1 + nDiff[g]
            /\ VersionNumbers(db[g]) = [i \in 1..nDiff[g] |-> i]

\* the last step was a successful edit of document last.id
EditDone == last.op = "edit" /\ last.flag = "ok" /\ last.resp.status = 200

\* C3: a successful edit by the owner whose content equals the stored
\* content leaves currentVersion and version[] as they were.
C3_NoOpEdit ==
    (EditDone /\ last.content = StoredContent(last.pre[last.id])) =>
        /\ db[last.id].currentVersion = last.pre[last.id].currentVersion
        /\ db[last.id].version = last.pre[last.id].version

\* C3 witness: an identical-content edit has just succeeded on a document
\* that already has history.
C3_Witness ==
    /\ EditDone
    /\ last.content = StoredContent(last.pre[last.id])
    /\ last.content # << >>
    /\ Len(db[last.id].version) >= 1

\* C4: every content value that was live and was later replaced by a
\* different value is the content of a snapshot in version[], recorded under
\* the version number that was current while it was live.
C4_HistoryComplete ==
    \A g \in DOMAIN db :
        replaced[g] \subseteq
            {<<db[g].version[i].version, db[g].version[i].content>> :
                i \in 1..Len(db[g].version)}

\* the requester is refused by the view predicate on an existing document
Refused(id, email) ==
    /\ id \in DOMAIN db
    /\ db[id].email # email
    /\ ~(db[id].published /\ db[id].status = "completed")

\* C5: a view or download by a requester who is not the owner of a
\* generation that is not (published and completed) gets exactly the
\* response a request for a non-existent id gets.
C5_RefusedLooksMissing ==
    /\ \A id \in Ids, e \in Requesters :
          Refused(id, e) =>
              /\ ViewResponse(id, e) = ViewResponse(MissingId, e)
              /\ DownloadResponse(id, e) = DownloadResponse(MissingId, e)
    /\ (last.op = "view" /\ Refused(last.id, last.email)) =>
          last.resp = ViewResponse(MissingId, last.email)
    /\ (last.op = "download" /\ Refused(last.id, last.email)) =>
          last.resp = DownloadResponse(MissingId, last.email)

\* C5 witness: a non-owner has just asked to view an existing completed,
\* unpublished generation.
C5_Witness ==
    /\ last.op = "view"
    /\ Refused(last.id, last.email)
    /\ db[last.id].status = "completed"
    /\ last.resp.status = 404

\* C6: in every persisted state, published is true iff publishedAt and
\* publishedBy are both set, and false iff both are unset.
C6_PublishedIffStamped ==
    \A g \in DOMAIN db :
        /\ db[g].published <=>
              (db[g].publishedAt # Undefined /\ db[g].publishedBy # Undefined)
        /\ ~db[g].published <=>
              (db[g].publishedAt = Undefined /\ db[g].publishedBy = Undefined)

\* the last step was an edit or publish request for an existing document
OnExisting == last.op \in {"edit", "publish"} /\ last.id \in DOMAIN last.pre

\* C7: edit and publish change a generation only when its status is
\* 'completed'; on a failed or in-flight generation the owner gets 400 and
\* the record is unchanged; so published = true implies status = completed.
C7_CompletedOnly ==
    /\ \A g \in DOMAIN db : db[g].published => db[g].status = "completed"
    /\ (OnExisting /\ last.pre[last.id].email = last.email
                   /\ last.pre[last.id].status # "completed") =>
          /\ last.resp.status = 400
          /\ db = last.pre
    /\ (OnExisting /\ db # last.pre) => last.pre[last.id].status = "completed"

\* C7 witness: the owner has just tried to edit a generation that is still
\* in flight and was answered 400.
C7_Witness ==
    /\ OnExisting
    /\ last.op = "edit"
    /\ last.pre[last.id].email = last.email
    /\ last.pre[last.id].status = Undefined
    /\ last.resp.status = 400

\* C8: edit and publish by a requester who is not the owner answer exactly
\* as for a non-existent id, published or not, and change no generation.
C8_NonOwnerLooksMissing ==
    /\ \A id \in DOMAIN db, e \in Requesters :
          db[id].email # e =>
              /\ \A c \in EditContents \cup {NotAString} :
                    EditGuard(id, e, c) = EditGuard(MissingId, e, c)
              /\ \A p \in PublishInputs :
                    PublishGuard(id, e, p) = PublishGuard(MissingId, e, p)
    /\ (OnExisting /\ last.pre[last.id].email # last.email) =>
          /\ db = last.pre
          /\ last.resp.status \in {400, 404}
          /\ last.resp.status = 404 => last.resp = NotFound
          /\ last.resp.status = 400 =>
                last.resp.error \in {<<"content must be a string">>,
                                     <<"Published must be a boolean">>}

\* C8 witness: a non-owner has just tried to unpublish or republish a
\* published generation and was answered NotFound.
C8_Witness ==
    /\ OnExisting
    /\ last.op = "publish"
    /\ last.pre[last.id].email # last.email
    /\ last.pre[last.id].published
    /\ last.resp = NotFound

\* the last step sent the create route's own response to a tracker or model failure
FailureAnswered == last.op = "create" /\ last.flag \in {"tracker", "model"}

\* C9: when the create route answers a tracker failure or a model failure,
\* the record is already stored with status 'failed', a non-empty error and
\* completedAt set; and every stored failed record has both.
C9_FailurePersistedFirst ==
    /\ FailureAnswered =>
          /\ last.id \in DOMAIN db
          /\ db[last.id].status = "failed"
          /\ db[last.id].error # << >>
          /\ db[last.id].completedAt # Undefined
          /\ ~last.resp.success
    /\ \A g \in DOMAIN db :
          db[g].status = "failed" => db[g].error # << >> /\ db[g].completedAt # Undefined

\* C9 witness: the tracker returned a failure without a message and the
\* create route has just answered it.
C9_Witness ==
    /\ last.op = "create"
    /\ last.flag = "tracker"
    /\ last.resp.error = << >>
    /\ db[last.id].status = "failed"

\* the three-way classification of a tracker error message
Classify(error) ==
    IF Includes(error, "authentication") \/ Includes(error, "forbidden") THEN 401
    ELSE IF Includes(error, "not found") THEN 404
    ELSE 500

\* C10: a tracker failure during create is answered 401 / 404 / 500 by the
\* words of the error message, the same status preflight gives that message.
C10_CreateClassifies ==
    (last.op = "create" /\ last.flag = "tracker") =>
        /\ last.resp.status = Classify(last.resp.error)
        /\ last.resp.status = PreflightStatus(last.resp.error)

\* the delays (ms) the retry policy prescribes after failed attempts 1, 2, 3
Backoff == <<2000, 4000, 8000>>

\* C11: one generateTestCase invocation calls the model at most 4 times; it
\* makes no call after the first success; after failed attempt k (k = 1..3)
\* it waits 2^k seconds before the next attempt; and when the 4th attempt
\* fails, that attempt's error is thrown without a further wait.
C11_RetryPolicy ==
    /\ \A g \in DOMAIN reqs :
          LET r == reqs[g] IN
          /\ r.calls <= 4
          /\ r.pc = "generate" =>
                r.calls <= 3 /\ r.waits = SubSeq(Backoff, 1, r.calls)
          /\ r.pc = "saveCompleted" =>
                r.calls >= 1 /\ r.waits = SubSeq(Backoff, 1, r.calls - 1)
          /\ (r.pc = "saveFailed" /\ r.cause = "model" /\ r.calls > 0) =>
                r.calls = 4 /\ r.waits = Backoff
    /\ (last.op = "create" /\ last.flag = "generate" /\ last.id \in DOMAIN reqs
           /\ reqs[last.id].pc = "saveFailed") =>
          /\ reqs[last.id].pending.error = last.content
          /\ reqs[last.id].error = <<"OpenAI generation failed:">> \o last.content

\* C11 witness: the fourth model call has just failed with an empty
\* response after three backoff waits.
C11_Witness ==
    /\ last.op = "create" /\ last.flag = "generate"
    /\ last.id \in DOMAIN reqs
    /\ reqs[last.id].pc = "saveFailed"
    /\ reqs[last.id].calls = 4
    /\ Len(reqs[last.id].waits) = 3
    /\ last.content = <<"Empty response from OpenAI">>

\* the last step was a model call that succeeded for request last.id
Generated ==
    /\ last.op = "create" /\ last.flag = "generate"
    /\ last.id \in DOMAIN reqs
    /\ reqs[last.id].pc = "saveCompleted"

\* the last step stored a completed generation and answered the create request
Created == last.op = "create" /\ last.flag = "saveCompleted" /\ last.resp.status = 200

\* C12: a create request whose tracker fetch and model call succeeded
\* stores status 'completed', content beginning with '#' (the model output
\* itself when it begins with '#', otherwise a title line with the issue key
\* and the summary followed by the output), the filename
\* <issueKey>_testcases_<id>.md, currentVersion 1 and an empty version[].
C12_CompletedShape ==
    /\ Generated =>
          LET r == reqs[last.id]
              output == last.content
              title == SubSeq(r.markdown, 1, Len(r.markdown) - Len(output))
          IN
          /\ StartsWith(r.markdown, "#")
          /\ SubSeq(r.markdown, Len(title) + 1, Len(r.markdown)) = output
          /\ StartsWith(output, "#") => title = << >>
          /\ ~StartsWith(output, "#") =>
                /\ \E i \in 1..Len(title) :
                      SubSeq(title, i, i + Len(r.issueKey) - 1) = r.issueKey
                /\ r.summary # << >> =>
                      \E i \in 1..Len(title) :
                          SubSeq(title, i, i + Len(r.summary) - 1) = r.summary
    /\ Created =>
          LET gen == db[last.id] IN
          /\ gen.status = "completed"
          /\ gen.hasMarkdown
          /\ StartsWith(gen.content, "#")
          /\ gen.content = last.resp.data.markdown.content
          /\ gen.filename = [issueKey |-> gen.issueKey, id |-> last.id]
          /\ gen.currentVersion = 1
          /\ gen.version = << >>

\* C12 witness: a generation whose model output had no heading has just
\* been stored as completed, with the synthesized title in front.
C12_Witness ==
    /\ Created
    /\ Len(db[last.id].content) > 2
    /\ db[last.id].content[Len(db[last.id].content)] = "b"

\* C13: in every persisted state of a Generation, status = 'failed' holds
\* exactly when the error field is non-empty and result.markdown is absent.
C13_FailedIffError ==
    \A g \in DOMAIN db :
        db[g].status = "failed" <=> (db[g].error # << >> /\ ~db[g].hasMarkdown)

\* C13 witness: a generation failed by the tracker is stored next to the
\* answer to a later request of its owner to edit it.
C13_Witness ==
    /\ last.op = "edit"
    /\ last.id \in DOMAIN db
    /\ db[last.id].status = "failed"
    /\ db[last.id].email = last.email
    /\ db[last.id].error # << >>

\* the last step was a publish request that got past the early returns and saved
PublishDone == last.op = "publish" /\ last.flag \in {"true", "false"}

\* C14: setPublished(true) by the owner on an already published completed
\* generation succeeds and leaves published = true with publishedBy = the
\* requester; setPublished(false) on an already unpublished one succeeds and
\* leaves published = false with publishedAt and publishedBy unset; neither
\* repeated request is turned away with an error.
C14_PublishIdempotent ==
    /\ \A id \in DOMAIN db, e \in Requesters :
          (db[id].email = e /\ db[id].status = "completed") =>
              /\ PublishGuard(id, e, "true") = NoResp
              /\ PublishGuard(id, e, "false") = NoResp
    /\ (PublishDone /\ last.flag = "true" /\ last.pre[last.id].published) =>
          /\ last.resp.status = 200
          /\ db[last.id].published
          /\ db[last.id].publishedBy = last.email
          /\ db[last.id] = [last.pre[last.id] EXCEPT !.publishedAt = db[last.id].publishedAt,
                                                      !.publishedBy = last.email]
    /\ (PublishDone /\ last.flag = "false" /\ ~last.pre[last.id].published) =>
          /\ last.resp.status = 200
          /\ ~db[last.id].published
          /\ db[last.id].publishedAt = Undefined
          /\ db[last.id].publishedBy = Undefined
          /\ db = last.pre

\* C14 witness: the owner has just published a generation that was already
\* published.
C14_Witness ==
    /\ PublishDone
    /\ last.flag = "true"
    /\ last.pre[last.id].published
    /\ last.pre[last.id].publishedBy = last.email
    /\ last.email # Undefined
    /\ last.resp.status = 200

\* the access check let the request through: it was not answered NotFound
Granted(resp) == resp # NotFound

C20_OwnerResolved ==
    /\ \A g \in DOMAIN db : db[g].email \in Emails
    /\ last.op \in {"create", "edit", "publish", "view", "download", "delete"} =>
          last.email \in Emails

\* the generations the claim's filter matches for a requester
Matching(filter, email) ==
    LET mine == {g \in DOMAIN db : db[g].email = email}
        published == {g \in DOMAIN db : db[g].published /\ db[g].status = "completed"}
    IN IF filter = "mine" THEN mine
       ELSE IF filter = "published" THEN published
       ELSE mine \cup published

\* the number a decimal string of the list contract spells (page >= 1, limit in 1..50)
Spelled(str) == CHOOSE n \in 1..50 : ToString(n) = str

\* the last step answered a list request whose page and limit are within the contract
ListedInContract ==
    /\ last.op = "list"
    /\ \E n \in 1..50 : ToString(n) = last.content[1]
    /\ \E n \in 1..50 : ToString(n) = last.content[2]

\* C16: list(requester, filter, page, limit) returns exactly the slice
\* [(page-1)*limit, (page-1)*limit + limit) of the newest-first ordering of
\* the generations matching the filter ('mine': the requester's own of any
\* status; 'published': published and completed of any owner; 'all', also the
\* default: the union), and the reported total is the number of matches.
C16_ListSlice ==
    ListedInContract =>
        LET page == Spelled(last.content[1])
            limit == Spelled(last.content[2])
            M == Matching(last.flag, last.email)
            items == last.resp.data.generations
            first == (page - 1) * limit
            newer(g) == Cardinality({h \in M : db[h].createdAt > db[g].createdAt})
        IN
        /\ last.resp.status = 200
        /\ last.resp.data.pagination.total = Cardinality(M)
        /\ Len(items) = Max(0, Min(limit, Cardinality(M) - first))
        /\ \A j \in 1..Len(items) : items[j] \in M /\ newer(items[j]) = first + j - 1

\* C16 witness: the second page of the listing of three
\* matching generations has just been returned, and it holds another
\* owner's published generation.
C16_Witness ==
    /\ ListedInContract
    /\ last.flag = "all"
    /\ last.content = <<"2", "1">>
    /\ last.resp.data.pagination.total = 3
    /\ Len(last.resp.data.generations) = 1
    /\ db[last.resp.data.generations[1]].email # last.email

\* ids of generations that were stored once and are gone
Deleted == DOMAIN reqs \ DOMAIN db

\* the ids a list response carries
Listed(resp) == {resp.data.generations[j] : j \in 1..Len(resp.data.generations)}

\* the last step was a delete request for an existing generation
DeleteOnExisting == last.op = "delete" /\ last.id \in DOMAIN last.pre

\* C19: a delete request by a non-owner is answered with an ownership
\* error and changes nothing; a delete request by the owner removes the
\* generation whatever its status or published flag; and a removed
\* generation is NotFound for view, download, edit and publish by any
\* requester and is in no list result.
C19_DeleteOwnerOnly ==
    /\ (DeleteOnExisting /\ last.pre[last.id].email # last.email) =>
          /\ last.resp.status = 403
          /\ ~last.resp.success
          /\ db = last.pre
    /\ (DeleteOnExisting /\ last.pre[last.id].email = last.email) =>
          /\ last.resp.status = 200
          /\ db = Drop(last.pre, last.id)
    /\ \A id \in Deleted, e \in Requesters :
          /\ ViewResponse(id, e) = NotFound
          /\ DownloadResponse(id, e) = NotFound
          /\ \A c \in EditContents : EditGuard(id, e, c) = NotFound
          /\ \A p \in {"true", "false"} : PublishGuard(id, e, p) = NotFound
          /\ \A f \in FilterInputs, pg \in {Undefined, "2", "abc"}, lm \in {Undefined, "1", "abc"} :
                id \notin Listed(ListResponse(e, f, pg, lm))
    /\ (last.op \in {"view", "download"} /\ last.id \in Deleted) => last.resp = NotFound

\* C19 witness: the owner has just deleted a published generation.
C19_Witness ==
    /\ DeleteOnExisting
    /\ last.pre[last.id].email = last.email
    /\ last.pre[last.id].published
    /\ last.resp.status = 200
    /\ last.id \in Deleted

\* C19 witness of the refusal: the generation a non-owner asked to delete
\* is still stored.
C19_WitnessRefused ==
    /\ DeleteOnExisting
    /\ last.pre[last.id].email # last.email
    /\ last.id \in DOMAIN db

\* C18: extractProject returns the upper-cased longest leading run of one
\* or more letters/digits that is immediately followed by a hyphen, and
\* null when the argument is empty, null, not a string, or has no such
\* prefix: 'K-1' gives 'K', 'k-1' gives 'K', '' and null give null.
C18_ExtractProject ==
    last.op = "extractProject" =>
        LET s == last.content
            result == last.resp.data.value
            prefixes == {n \in 1..(Len(s) - 1) :
                            /\ \A i \in 1..n : s[i] \in {"k", "K", "1"}
                            /\ s[n + 1] = "-"}
        IN
        /\ s \in {<< >>, Null, NotAString} => result = Null
        /\ (s \notin {<< >>, Null, NotAString} /\ prefixes = {}) => result = Null
        /\ (s \notin {<< >>, Null, NotAString} /\ prefixes # {}) =>
              /\ Cardinality(prefixes) = 1
              /\ \A n \in prefixes :
                    result = [i \in 1..n |-> IF s[i] = "k" THEN "K" ELSE s[i]]
        /\ s = <<"K", "-", "1">> => result = <<"K">>
        /\ s = <<"k", "-", "1">> => result = <<"K">>

\* C18 witness: a lower-case key with a two-character prefix has just been
\* extracted.
C18_Witness ==
    /\ last.op = "extractProject"
    /\ last.content = <<"k", "1", "-">>
    /\ last.resp.data.value = <<"K", "1">>

\* every create request has stored its record and finished its project update
ProjectUpdatesDone ==
    /\ DOMAIN reqs # {}
    /\ \A g \in DOMAIN reqs : reqs[g].pc = "fetch"

\* C17: once concurrent create requests of one project have all finished
\* their project update, the Project's totalGenerations equals the number of
\* persisted Generation records that reference the project.
C17_TotalMatchesCount ==
    ProjectUpdatesDone =>
        \A p \in DOMAIN projects : projects[p].totalGenerations = countDocuments(p)

\* the last step sent a JSON body (download sends the markdown itself; an
\* exception that left the handler sent nothing from the route)
JsonSent ==
    /\ last.resp.status # 0
    /\ last.resp # Unhandled
    /\ ~(last.op = "download" /\ last.resp.status = 200)

\* C21: every JSON response of the routes contains a boolean field
\* 'success', and every failure response also a string field 'error'.
C21_Envelope ==
    JsonSent =>
        /\ "success" \in DOMAIN last.resp
        /\ last.resp.success \in BOOLEAN
        /\ ~last.resp.success => "error" \in DOMAIN last.resp

\* MIME types that start with 'image/'
ImageTypes == {"image/png"}

\* C22: for every issue the tracker returns, whatever its attachments, the
\* preflight request completes with estimatedTokens =
\* ceil(length(summary + ' ' + description) / 4) + 200 * (number of
\* attachments whose MIME type starts with 'image/').
C22_PreflightEstimate ==
    (last.op = "preflight" /\ last.flag = "fetched") =>
        LET summary == last.content[1]
            description == last.content[2]
            attachment == last.content[3]
            length == Len(summary) + 1 + Len(description)
            quarter == CHOOSE n \in 0..length : 4 * n >= length /\ 4 * (n - 1) < length
            images == Cardinality({i \in 1..Len(attachment) : attachment[i] \in ImageTypes})
        IN
        /\ last.resp.status = 200
        /\ last.resp.data.estimatedTokens = quarter + 200 * images

\* C23: for every value of the page and limit query parameters (absent,
\* numeric, zero, negative, above 50, text that is no number) the list
\* request runs with an integer page >= 1, an integer limit in 1..50 and
\* skip = (page - 1) * limit >= 0, and reports pages = ceil(total / limit).
C23_ListWindow ==
    last.op = "list" =>
        LET page == last.pre.page
            limit == last.pre.limit
            skip == last.pre.skip
        IN
        /\ page # NaN /\ page >= 1
        /\ limit # NaN /\ limit \in 1..50
        /\ skip = (page - 1) * limit /\ skip >= 0
        /\ last.resp.status = 200
        /\ LET total == last.resp.data.pagination.total
               pages == last.resp.data.pagination.pages
           IN pages * limit >= total /\ (pages - 1) * limit < total

\* the last step answered a list request with a page of generations
ListServed == last.op = "list" /\ last.resp.status = 200

\* C27: every generation a list request returns, whatever the filter
\* ('published' and unrecognised values included) and whoever asks, is one
\* the requester may view: their own, or published and completed.
C27_ListedViewable ==
    ListServed =>
        \A id \in Listed(last.resp) :
            \/ db[id].email = last.email
            \/ db[id].published /\ db[id].status = "completed"

\* C27 witness: a list request with an unrecognised filter has just been
\* answered with another owner's published generation, while that owner's
\* unpublished generation is stored and not returned.
C27_Witness ==
    /\ ListServed
    /\ last.flag = "bogus"
    /\ last.content = <<Undefined, Undefined>>
    /\ \E id \in Listed(last.resp) : db[id].email # last.email /\ db[id].published
    /\ \E id \in DOMAIN db \ Listed(last.resp) :
          db[id].email # last.email /\ ~db[id].published

\* currentVersion is at least 1 and above every snapshot number, and the
\* snapshot numbers strictly increase in array order
VersionsOrdered ==
    \A g \in DOMAIN db :
        /\ db[g].currentVersion >= 1
        /\ \A i \in 1..Len(db[g].version) :
              VersionNumbers(db[g])[i] < db[g].currentVersion
        /\ \A i, j \in 1..Len(db[g].version) :
              i < j => VersionNumbers(db[g])[i] < VersionNumbers(db[g])[j]

\* a step never lowers the currentVersion of a stored generation
VersionKept ==
    \A g \in DOMAIN db \cap DOMAIN db' : db'[g].currentVersion >= db[g].currentVersion

\* C24: under create, edit, publish and unpublish requests served one after
\* the other, currentVersion is at least 1 and never lower than before, and
\* the version numbers of version[] are pairwise distinct, strictly
\* increasing in array order and all below currentVersion.
C24_VersionsMonotone == []VersionsOrdered /\ [][VersionKept]_vars

\* C24 witness: the second content-changing edit has just been saved; the
\* generation is at version 3 with the snapshots 1 and 2.
C24_Witness ==
    /\ EditDone
    /\ db[last.id].currentVersion = 3
    /\ Len(db[last.id].version) = 2
    /\ last.pre[last.id].currentVersion = 2

\* every content request loaded the record before any of them saved, and
\* all of them have saved
EditsInterleaved ==
    /\ Len(edits) >= 2
    /\ \A k \in 1..Len(edits) : edits[k].pc = "saved" /\ edits[k].seen = 0

\* C25: when two content requests of the owner for one completed
\* generation interleave (both load the record before either saves), then
\* after both saves no two snapshots of version[] have the same version
\* number and every snapshot number is below currentVersion.
C25_InterleavedEdits ==
    EditsInterleaved =>
        \A g \in DOMAIN db :
            /\ \A i, j \in 1..Len(db[g].version) :
                  i # j => db[g].version[i].version # db[g].version[j].version
            /\ \A i \in 1..Len(db[g].version) :
                  db[g].version[i].version < db[g].currentVersion

\* the positions of a create handler before its tracker query
BeforeFetch == {"saved", "counting", "saving", "fetch"}

\* what every create request in progress has done so far, by position
CreateOrdered ==
    \A g \in DOMAIN reqs :
        LET r == reqs[g] IN
        /\ r.fetches <= 1
        /\ r.pc \in BeforeFetch => r.fetches = 0 /\ r.calls = 0
        /\ r.calls >= 1 => r.fetches = 1 /\ r.cause # "tracker"
        /\ r.pc = "generate" => r.fetches = 1
        /\ r.pc = "saveCompleted" => r.fetches = 1 /\ r.calls >= 1
        /\ r.pc = "saveFailed" =>
              /\ r.fetches = 1
              /\ r.cause \in {"tracker", "model"}
              /\ r.cause = "tracker" => r.calls = 0
        /\ (r.pc # "done" /\ g \in DOMAIN db) =>
              db[g].status = Undefined /\ db[g].startedAt = Date

\* a request starts with its in-flight record stored, and a terminal status
\* is written by the request's last step alone
CreateStepsOrdered ==
    /\ \A g \in DOMAIN reqs' \ DOMAIN reqs :
          /\ g \in DOMAIN db' \ DOMAIN db
          /\ db'[g].status = Undefined /\ db'[g].startedAt = Date
          /\ reqs'[g].pc \in BeforeFetch
    /\ \A g \in DOMAIN db \cap DOMAIN db' :
          (db[g].status = Undefined /\ db'[g].status \in Terminal) =>
              /\ g \in DOMAIN reqs
              /\ reqs[g].pc \in {"saveFailed", "saveCompleted"}
              /\ reqs'[g].pc = "done"

\* C26: within one create request the in-flight record (startedAt set, no
\* status) is persisted before the tracker is contacted; the tracker is
\* queried exactly once and never again; the model is invoked only after a
\* successful fetch; and the terminal status is persisted only after the
\* fetch has failed or the model call has returned or failed.
C26_CreateOrder == []CreateOrdered /\ [][CreateStepsOrdered]_vars

\* C26 witness: the model has answered after one failed call and the
\* request is about to persist 'completed'; the record is still in flight.
C26_Witness ==
    \E g \in DOMAIN reqs \cap DOMAIN db :
        /\ reqs[g].pc = "saveCompleted"
        /\ reqs[g].fetches = 1
        /\ reqs[g].calls = 2
        /\ db[g].status = Undefined

\* a step keeps the status and the owner of every generation that is
\* completed or failed
TerminalKept ==
    \A g \in DOMAIN db \cap DOMAIN db' :
        db[g].status \in Terminal =>
            db'[g].status = db[g].status /\ db'[g].email = db[g].email

\* a publish or unpublish step keeps the content and the version history
PublishFrame ==
    last'.op = "publish" =>
        \A g \in DOMAIN db \cap DOMAIN db' :
            /\ db'[g].hasMarkdown = db[g].hasMarkdown
            /\ db'[g].content = db[g].content
            /\ db'[g].currentVersion = db[g].currentVersion
            /\ db'[g].version = db[g].version

\* an edit step keeps the publication fields
EditFrame ==
    last'.op = "edit" =>
        \A g \in DOMAIN db \cap DOMAIN db' :
            /\ db'[g].published = db[g].published
            /\ db'[g].publishedAt = db[g].publishedAt
            /\ db'[g].publishedBy = db[g].publishedBy

\* C28: once a generation is completed or failed, no edit, publish,
\* unpublish, view, download or list request changes its status or its
\* owner email; a publish or unpublish request leaves the content,
\* currentVersion and version[] unchanged, and an edit request leaves
\* published, publishedAt and publishedBy unchanged.
C28_Frame == [][TerminalKept /\ PublishFrame /\ EditFrame]_vars

\* C28 witness: a generation with a version history has just been
\* published; its history and content are those it had before.
C28_Witness ==
    /\ last.op = "publish"
    /\ last.resp.status = 200
    /\ last.id \in DOMAIN db
    /\ db[last.id].published /\ ~last.pre[last.id].published
    /\ Len(db[last.id].version) >= 1
    /\ db[last.id].status = "completed"

----------------------------------------------------------------------------

Next ==
    \/ \E tok \in Tokens : Unauthenticated(tok)
    \/ \E tok \in Tokens : CreateBegin(tok, MaxGen)
    \/ \E g \in Ids : CreateProjectLoad(g)
    \/ \E g \in Ids : CreateCount(g)
    \/ \E g \in Ids : CreateProjectSave(g)
    \/ \E g \in Ids : CreateFetch(g)
    \/ \E g \in Ids : CreateModelAttempt(g)
    \/ \E g \in Ids : CreateSaveFailed(g)
    \/ \E g \in Ids : CreateSaveCompleted(g)
    \/ \E tok \in Tokens, id \in Ids : UpdateContent(tok, id)
    \/ \E tok \in Tokens, id \in Ids : SetPublished(tok, id)
    \/ \E tok \in Tokens, id \in Ids : View(tok, id)
    \/ \E tok \in Tokens, id \in Ids : Download(tok, id)
    \/ \E tok \in Tokens, id \in Ids : Delete(tok, id)
    \/ \E tok \in Tokens : Preflight(tok, {<< >>}, AttachmentLists)

Spec == Init /\ [][Next]_vars

\* concurrent create requests up to the end of their project update
NextProject ==
    \/ \E tok \in Tokens : CreateBegin(tok, MaxCreates)
    \/ \E g \in 1..MaxCreates : CreateProjectLoad(g)
    \/ \E g \in 1..MaxCreates : CreateCount(g)
    \/ \E g \in 1..MaxCreates : CreateProjectSave(g)

SpecProject == Init /\ [][NextProject]_vars

SpecPreflight == Init /\ [][NextPreflight]_vars

====
